---- MODULE Spec2Model ----
(***************************************************************************)
(* Client-side session and navigation state of the document chatbot:       *)
(* the entity store (documents, chat sessions, messages), the screen       *)
(* navigation of AppContent, the chat send / completion protocol and the   *)
(* document view of ChatbotInterface and DocumentViewer, the citation      *)
(* renderer, and the snapshot kept in localStorage.                        *)
(*                                                                         *)
(* Spec is the store and the navigation of the application as wired: each  *)
(* handler fires only from the screen whose component receives it and with *)
(* the arguments that component can pass.  SpecChat is the same wiring     *)
(* started after two uploads, without further uploads or the viewer,       *)
(* together with the chat protocol: sends and responses of several         *)
(* sessions in any order.  SpecReply follows one conversation through      *)
(* every outcome of the backend call.  SpecApi calls the handlers of       *)
(* AppContent the way a caller holding the functions could, with any       *)
(* argument in any screen; it is used for the contract of a handler on     *)
(* arguments the screens never pass.  SpecView is the viewer and the chat  *)
(* over two documents with the page and zoom buttons, the citation clicks  *)
(* and the document-info responses.  SpecCite renders every paragraph of a *)
(* bounded length.  SpecStore opens the page over a stored snapshot, sound *)
(* or not, and reloads it at any moment of its use; SpecQuota is SpecStore *)
(* with a browser whose storage runs full.  SpecReplyFair is SpecReply when *)
(* every backend call settles.  SpecAuth is the sign-in state of           *)
(* AuthProvider, the token kept by tokenStorage and the requests the API   *)
(* module builds.                                                          *)
(*                                                                         *)
(* A page that mounts over a saved token shows the loading screen while    *)
(* loadUser checks the token, and the sign-in page at once when no token   *)
(* is saved; SpecStore, SpecQuota and SpecAuth follow the mount and the    *)
(* answer, the other specifications start with UserA signed in.           *)
(*                                                                         *)
(* localStorage holds strings: the documents and the sessions are written  *)
(* as the text JSON.stringify gives and read back by a parser of that      *)
(* text.  In SpecQuota any save effect that makes the storage larger than  *)
(* it has been may be refused by the browser, the effects before it having *)
(* written their values.  The image search of the home page, which         *)
(* reorders the documents in place, is part of Spec and SpecStore; the     *)
(* specifications of the chat and of the document view keep the two        *)
(* documents in the order of their upload.                                 *)
(***************************************************************************)
EXTENDS Integers, Sequences, FiniteSets, TLC

(* ------------------------------ bounds -------------------------------- *)
MaxClock == 2
MaxDocs == 2
MaxBots == 2
\* messages of all sessions together
MaxChatMsgs == 3
\* the largest page count a document-info response reports
MaxPages == 3
\* the longest paragraph given to the citation renderer, in tokens
MaxTokens == 6

(* ------------------------------ inputs -------------------------------- *)
NoValue == "undefined"
Null == "null"

\* the files a user uploads: the name of each, its text as FileReader
\* delivers it, and the value Math.random() returns while its Document is
\* built (HomePage.tsx:31).  The name of the second holds a quotation mark
FileA == [name |-> "a.pdf", rand |-> "0.25", text |-> "draft 0 pages"]
FileB == [name |-> "b\"2.pdf", rand |-> "0.75", text |-> "notes 2 page"]
Files == { FileA, FileB }
\* texts typed into the chat input; " " is blank after trim()
Inputs == {"q", " "}

\* outcomes of one api.sendChatMessage call: when fetch rejects or the status
\* is not ok the call throws an Error and error is its message; otherwise the
\* fields are those of the decoded ChatResponse body
Responses ==
  { [threw |-> TRUE,  success |-> FALSE, answer |-> NoValue, response |-> NoValue, error |-> "Chat failed: Bad Gateway"],
    [threw |-> FALSE, success |-> TRUE,  answer |-> "See [page 1]", response |-> NoValue, error |-> NoValue],
    [threw |-> FALSE, success |-> TRUE,  answer |-> NoValue, response |-> "legacy", error |-> NoValue],
    [threw |-> FALSE, success |-> TRUE,  answer |-> NoValue, response |-> NoValue, error |-> NoValue],
    [threw |-> FALSE, success |-> FALSE, answer |-> "See [page 1]", response |-> NoValue, error |-> "no session"],
    [threw |-> FALSE, success |-> FALSE, answer |-> NoValue, response |-> NoValue, error |-> NoValue] }

VARIABLES
  now,                 \* Date.now()
  documents,           \* AppContent state: Document[]
  chatbots,            \* AppContent state: Chatbot[]
  currentScreen,       \* AppContent state: Screen
  selectedDocumentId,  \* AppContent state: string | null
  selectedChatbotId,   \* AppContent state: string | null
  isSending,           \* ChatbotInterface state of the mounted chat view
  pending,             \* chat requests awaiting their response, in issue order
  currentPage,         \* state of the mounted document view: page shown
  zoom,                \* state of the mounted document view: zoom in percent
  totalPages,          \* state of the mounted document view: page count
  isDocumentExpanded,  \* ChatbotInterface state: the chat column takes the full width
  docInfoLoading,      \* ids of the documents whose getDocumentInfo call the mounted view awaits
  localStorage,        \* window.localStorage: the item under each key the application uses
  user,                \* AuthProvider state: User | null
  token,               \* AuthProvider state: string | null
  isLoading,           \* AuthProvider state: loadUser has not finished
  savedToken,          \* the token loadUser read at mount and holds while it awaits getCurrentUser
  content,             \* the text of a paragraph of an assistant message, as tokens
  rendered,            \* the elements the paragraph renderer returned for content
  botSerial,           \* history: for each element of chatbots, which createChatbot call made it
  lastCall             \* the handler that ran last, its argument, the error that escaped it

\* the state of the document view: DocumentViewer or the document column of
\* ChatbotInterface, whichever is mounted
viewVars == <<currentPage, zoom, totalPages, isDocumentExpanded, docInfoLoading>>

\* the paragraph renderer of ChatbotInterface, its input and its result
paragraphVars == <<content, rendered>>

\* the state of AuthProvider
authVars == <<user, token, isLoading, savedToken>>

vars == <<now, documents, chatbots, currentScreen, selectedDocumentId,
          selectedChatbotId, isSending, pending, viewVars, paragraphVars,
          authVars, localStorage, botSerial, lastCall>>

(* ------------------------------ helpers ------------------------------- *)
RECURSIVE SelectSeqBy(_, _)
\* s.filter(...) where keep[i] tells whether element i passes
SelectSeqBy(s, keep) ==
  IF s = <<>> THEN <<>>
  ELSE LET rest == SelectSeqBy(Tail(s), [i \in 1..(Len(s) - 1) |-> keep[i + 1]])
       IN  IF keep[1] THEN <<Head(s)>> \o rest ELSE rest

\* whether Array.prototype.find on the id finds an element
HasId(s, id) == \E i \in DOMAIN s : s[i].id = id

\* the index Array.prototype.find stops at: the first element with that id
FirstIndex(s, id) ==
  CHOOSE i \in DOMAIN s : s[i].id = id /\ \A j \in 1..(i - 1) : s[j].id # id

\* Array.prototype.find: the first element with that id, or undefined
FindById(s, id) == IF HasId(s, id) THEN s[FirstIndex(s, id)] ELSE NoValue

DocIdsOf(docs) == { docs[i].id : i \in DOMAIN docs }

selectedChatbot == FindById(chatbots, selectedChatbotId)

\* `chatbot-${Date.now()}`
NewChatbotId(t) == "chatbot-" \o ToString(t)
\* `msg-${Date.now()}`
UserMsgId(t) == "msg-" \o ToString(t)
\* `msg-${Date.now()}-ai`
AiMsgId(t) == "msg-" \o ToString(t) \o "-ai"
\* `msg-error-${Date.now()}`
ErrorMsgId(t) == "msg-error-" \o ToString(t)

\* the Document handleFileUpload builds from a file read at clock reading t;
\* its id is `doc-${Date.now()}-${Math.random()}`
NewDoc(t, file) ==
  [id |-> "doc-" \o ToString(t) \o "-" \o file.rand, name |-> file.name,
   content |-> file.text]

Call(op, arg) == [op |-> op, arg |-> arg, raised |-> "none"]

\* the least serial no live session and no pending request carries
FreshSerial ==
  LET used == { botSerial[i] : i \in DOMAIN botSerial } \cup { pending[i].serial : i \in DOMAIN pending }
  IN  CHOOSE n \in 1..(Cardinality(used) + 1) :
        n \notin used /\ \A m \in 1..(n - 1) : m \in used

\* What localStorage.getItem returns: null for a key never set or removed,
\* else the string stored
NoItem == [kind |-> "null"]
TextItem(text) == [kind |-> "text", text |-> text]

\* the character at position i of a string, "" past its end
Char(str, i) == IF i \in 1..Len(str) THEN SubSeq(str, i, i) ELSE ""

RECURSIVE Escape(_, _, _)
\* JSON.stringify of a string, between its quotation marks: the quotation
\* mark, the backslash and the line feed are escaped, the characters between
\* two of them stay.  start is where the run of characters being read began
Escape(str, start, i) ==
  LET c == Char(str, i)
  IN  IF c = "" THEN SubSeq(str, start, Len(str))
      ELSE IF c \in {"\"", "\\", "\n"}
      THEN SubSeq(str, start, i - 1)
           \o (IF c = "\"" THEN "\\\"" ELSE IF c = "\\" THEN "\\\\" ELSE "\\n")
           \o Escape(str, i + 1, i + 1)
      ELSE Escape(str, start, i + 1)

\* the string put between quotation marks as it is
QuoteUnescaped(str) == "\"" \o str \o "\""

\* JSON.stringify of a string
Quote(str) == "\"" \o Escape(str, 1, 1) \o "\""

RECURSIVE Join(_)
\* the texts of the elements of an array or of the members of an object,
\* with a comma between two of them
Join(texts) ==
  IF texts = <<>> THEN ""
  ELSE IF Len(texts) = 1 THEN texts[1]
  ELSE texts[1] \o "," \o Join(Tail(texts))

\* JSON.stringify(documents): every Document with its keys in the order
\* handleFileUpload wrote them.  uploadDate and size, two more strings of a
\* Document that the views only display, are left out of the model
stringifyDocuments(docs) ==
  "[" \o Join([k \in DOMAIN docs |->
                 "{" \o Join(<<"\"id\":" \o Quote(docs[k].id),
                               "\"name\":" \o Quote(docs[k].name),
                               "\"content\":" \o Quote(docs[k].content)>>) \o "}"])
      \o "]"

\* JSON.stringify(chatbots): every Chatbot with its keys in the order
\* createChatbot wrote them, every Message in the order handleSendMessage did
stringifyChatbots(bots) ==
  LET message(m) == "{" \o Join(<<"\"id\":" \o Quote(m.id),
                                  "\"role\":" \o Quote(m.role),
                                  "\"content\":" \o Quote(m.content)>>) \o "}"
      messages(ms) == "[" \o Join([k \in DOMAIN ms |-> message(ms[k])]) \o "]"
  IN  "[" \o Join([k \in DOMAIN bots |->
                     "{" \o Join(<<"\"id\":" \o Quote(bots[k].id),
                                   "\"documentId\":" \o Quote(bots[k].documentId),
                                   "\"documentName\":" \o Quote(bots[k].documentName),
                                   "\"messages\":" \o messages(bots[k].messages)>>) \o "}"])
          \o "]"

\* JSON.parse reads a text from position i on and gives the value read and
\* the position behind it, or fails with a SyntaxError.  Strings, arrays and
\* objects are read, the values AppContent stores being made of these; white
\* space between the tokens, numbers and the literals true, false and null
\* are in none of the texts considered
SyntaxError == [ok |-> FALSE, v |-> <<>>, i |-> 0]

RECURSIVE ParseString(_, _, _, _)
\* the characters of a string up to its closing quotation mark; start is
\* where the run of characters being read began, behind the opening
\* quotation mark or behind an escape, and acc is what was read before it
ParseString(text, start, j, acc) ==
  LET c == Char(text, j)
      e == Char(text, j + 1)
      run == acc \o SubSeq(text, start, j - 1)
  IN  IF c = "" THEN SyntaxError
      ELSE IF c = "\"" THEN [ok |-> TRUE, v |-> run, i |-> j + 1]
      ELSE IF c = "\\"
      THEN IF e \in {"\"", "\\", "/"} THEN ParseString(text, j + 2, j + 2, run \o e)
           ELSE IF e = "n" THEN ParseString(text, j + 2, j + 2, run \o "\n")
           ELSE SyntaxError
      ELSE ParseString(text, start, j + 1, acc)

RECURSIVE ParseValue(_, _)
RECURSIVE ParseElements(_, _, _)
RECURSIVE ParseMembers(_, _, _)
\* a value: a string, an array (a sequence) or an object (a record)
ParseValue(text, i) ==
  LET c == Char(text, i)
  IN  IF c = "\"" THEN ParseString(text, i + 1, i + 1, "")
      ELSE IF c = "["
      THEN IF Char(text, i + 1) = "]" THEN [ok |-> TRUE, v |-> <<>>, i |-> i + 2]
           ELSE ParseElements(text, i + 1, <<>>)
      ELSE IF c = "{"
      THEN IF Char(text, i + 1) = "}" THEN [ok |-> TRUE, v |-> <<>>, i |-> i + 2]
           ELSE ParseMembers(text, i + 1, <<>>)
      ELSE SyntaxError

\* the elements of an array from position i to its closing bracket
ParseElements(text, i, acc) ==
  LET element == ParseValue(text, i)
      c == Char(text, element.i)
  IN  IF ~element.ok THEN SyntaxError
      ELSE IF c = "," THEN ParseElements(text, element.i + 1, Append(acc, element.v))
      ELSE IF c = "]"
      THEN [ok |-> TRUE, v |-> Append(acc, element.v), i |-> element.i + 1]
      ELSE SyntaxError

\* the members of an object from position i to its closing brace; of two
\* members with one key the later one stays
ParseMembers(text, i, acc) ==
  LET key == ParseString(text, i + 1, i + 1, "")
      member == ParseValue(text, key.i + 1)
      c == Char(text, member.i)
  IN  IF Char(text, i) # "\"" THEN SyntaxError
      ELSE IF ~key.ok \/ Char(text, key.i) # ":" THEN SyntaxError
      ELSE IF ~member.ok THEN SyntaxError
      ELSE IF c = "," THEN ParseMembers(text, member.i + 1, (key.v :> member.v) @@ acc)
      ELSE IF c = "}"
      THEN [ok |-> TRUE, v |-> (key.v :> member.v) @@ acc, i |-> member.i + 1]
      ELSE SyntaxError

\* JSON.parse(text): the value, when the whole text is one value
JSONparse(text) ==
  LET value == ParseValue(text, 1)
  IN  IF value.ok /\ value.i = Len(text) + 1 THEN value ELSE SyntaxError

\* the item the save effect of a selected id leaves: setItem when the id is
\* truthy, removeItem when it is null or ""
IdItem(id) == IF id = Null \/ id = "" THEN NoItem ELSE TextItem(id)

\* the five values AppContent holds as state
AppState ==
  [documents          |-> documents,
   chatbots           |-> chatbots,
   currentScreen      |-> currentScreen,
   selectedDocumentId |-> selectedDocumentId,
   selectedChatbotId  |-> selectedChatbotId]

\* what the five save effects of AppContent write for the state st
ItemsOf(st) ==
  [documents          |-> TextItem(stringifyDocuments(st.documents)),
   chatbots           |-> TextItem(stringifyChatbots(st.chatbots)),
   currentScreen      |-> TextItem(st.currentScreen),
   selectedDocumentId |-> IdItem(st.selectedDocumentId),
   selectedChatbotId  |-> IdItem(st.selectedChatbotId)]

\* localStorage once the five save effects of AppContent have run
SavedItems == ItemsOf(AppState)

\* The specifications in which the page is never loaded leave the storage
\* out: the application writes it and reads it only while mounting
Untracked == [kind |-> "untracked"]

\* the keys of localStorage the application uses, none of them set
EmptyStorage ==
  [documents |-> NoItem, chatbots |-> NoItem, currentScreen |-> NoItem,
   selectedDocumentId |-> NoItem, selectedChatbotId |-> NoItem,
   cad_auth_token |-> NoItem, authToken |-> NoItem]

\* storage ls once the five save effects have all run, as they do on mount
WithSavedItems(ls, items) ==
  [ls EXCEPT !.documents = items.documents,
             !.chatbots = items.chatbots,
             !.currentScreen = items.currentScreen,
             !.selectedDocumentId = items.selectedDocumentId,
             !.selectedChatbotId = items.selectedChatbotId]

\* The save effects after the render that follows a state change: each runs
\* when the state it depends on has changed
saveEffects ==
  localStorage' =
    IF localStorage = Untracked
    THEN Untracked
    ELSE [localStorage EXCEPT
            !.documents = IF documents' # documents
                          THEN TextItem(stringifyDocuments(documents')) ELSE @,
            !.chatbots = IF chatbots' # chatbots
                         THEN TextItem(stringifyChatbots(chatbots')) ELSE @,
            !.currentScreen =
               IF currentScreen' # currentScreen THEN TextItem(currentScreen') ELSE @,
            !.selectedDocumentId =
               IF selectedDocumentId' # selectedDocumentId
               THEN IdItem(selectedDocumentId') ELSE @,
            !.selectedChatbotId =
               IF selectedChatbotId' # selectedChatbotId
               THEN IdItem(selectedChatbotId') ELSE @]

\* a user the backend knows, and the token it issues to them
UserA == [id |-> "u1", email |-> "a@example.com", name |-> "A"]
TokenA == "jwt-a"
\* no user: the state null of AuthProvider, the user field an AuthResponse
\* does not have
NoUser == [id |-> NoValue, email |-> NoValue, name |-> NoValue]

\* AuthProvider: isAuthenticated is !!user && !!token
isAuthenticated == user # NoUser /\ token # Null /\ token # ""

\* AppContent gets past its two early returns, the loading screen and the
\* sign-in pages, and renders the screen of the application
MainShown == currentScreen # NoValue /\ ~isLoading /\ isAuthenticated

\* the useState initialisers of a document view; also what the variables
\* hold while no document view is mounted
ViewInitial ==
  /\ currentPage = 1
  /\ zoom = 100
  /\ totalPages = 1
  /\ isDocumentExpanded = FALSE

Init ==
  /\ now = 1
  /\ documents = <<>>
  /\ chatbots = <<>>
  /\ currentScreen = "home"
  /\ selectedDocumentId = Null
  /\ selectedChatbotId = Null
  /\ isSending = FALSE
  /\ pending = <<>>
  /\ ViewInitial
  /\ docInfoLoading = {}
  /\ localStorage = Untracked
  /\ user = UserA
  /\ token = TokenA
  /\ isLoading = FALSE
  /\ savedToken = Null
  /\ content = <<>>
  /\ rendered = <<>>
  /\ botSerial = <<>>
  /\ lastCall = Call("init", Null)

(* ------------------------------ handlers ------------------------------ *)
\* the clock advances between two readings
Tick ==
  /\ now < MaxClock
  /\ now' = now + 1
  /\ UNCHANGED <<paragraphVars, authVars, localStorage, viewVars, documents, chatbots, currentScreen, selectedDocumentId,
                 selectedChatbotId, isSending, pending, botSerial, lastCall>>

\* AppContent renders <ChatbotInterface> only under this condition (part_003:203)
ChatViewShown ==
  MainShown /\ currentScreen = "chatbot" /\ HasId(chatbots, selectedChatbotId)

\* AppContent renders <DocumentViewer> only under this condition (part_003:195)
ViewerShown ==
  MainShown /\ currentScreen = "viewer" /\ HasId(documents, selectedDocumentId)

\* which component holding a document view is mounted
MountedView ==
  IF ChatViewShown THEN "chat" ELSE IF ViewerShown THEN "viewer" ELSE "none"

\* the id of the document the mounted view shows: currentDocument?.id in
\* ChatbotInterface, document.id in DocumentViewer
ViewDocId ==
  IF ChatViewShown
  THEN IF HasId(documents, selectedChatbot.documentId)
       THEN selectedChatbot.documentId ELSE NoValue
  ELSE IF ViewerShown THEN selectedDocumentId ELSE NoValue

\* What a handler of AppContent does to the mounted views by re-rendering.
\* A chat view shown before and after keeps its state; one that disappears
\* unmounts, so its isSending is gone and a response arriving later finds no
\* view to update.  A document view of the same component keeps page and
\* zoom, and its effect calls loadDocInfo again when its document changes
\* (loads under way for one document are taken together); a view that mounts
\* starts from the initial values and calls loadDocInfo
RerenderViews ==
  /\ IF ChatViewShown /\ ChatViewShown'
     THEN UNCHANGED <<isSending, pending>>
     ELSE isSending' = FALSE /\ pending' = [i \in DOMAIN pending |-> [pending[i] EXCEPT !.mounted = FALSE]]
  /\ IF MountedView' # "none" /\ MountedView' = MountedView
     THEN /\ UNCHANGED <<currentPage, zoom, totalPages, isDocumentExpanded>>
          /\ docInfoLoading' =
               IF ViewDocId' # ViewDocId /\ ViewDocId' # NoValue
               THEN docInfoLoading \cup {ViewDocId'}
               ELSE docInfoLoading
     ELSE /\ currentPage' = 1
          /\ zoom' = 100
          /\ totalPages' = 1
          /\ isDocumentExpanded' = FALSE
          /\ docInfoLoading' = IF ViewDocId' # NoValue THEN {ViewDocId'} ELSE {}

\* the render after a handler of AppContent has set state: the views, then
\* the save effects
Rerender ==
  /\ UNCHANGED <<paragraphVars, authVars>>
  /\ RerenderViews
  /\ saveEffects

\* nothing is rendered: an error that escaped a render or an effect has made
\* React unmount the tree
TreeUnmounted == currentScreen = NoValue

\* setDocuments(prev => [...prev, doc]); React drops the update of a tree
\* it has unmounted
addDocument(doc) ==
  /\ lastCall' = Call("addDocument", doc.id)
  /\ IF TreeUnmounted
     THEN UNCHANGED <<now, documents, chatbots, currentScreen, selectedDocumentId,
                      selectedChatbotId, isSending, pending, viewVars,
                      paragraphVars, authVars, localStorage, botSerial>>
     ELSE /\ documents' = Append(documents, doc)
          /\ UNCHANGED <<now, chatbots, currentScreen, selectedDocumentId,
                         selectedChatbotId, botSerial>>
          /\ Rerender

\* HomePage.handleImageSearch, the onload of its FileReader: documents is the
\* array AppContent holds as state, and sort orders it in place.  No
\* setDocuments is called, so AppContent does not render and no save effect
\* runs; setSearchImage and setSearchResults are state of HomePage
handleImageSearch(order) ==
  /\ documents' = [i \in DOMAIN documents |-> documents[order[i]]]
  /\ lastCall' = Call("handleImageSearch", order)
  /\ UNCHANGED <<now, chatbots, currentScreen, selectedDocumentId,
                 selectedChatbotId, isSending, pending, viewVars, paragraphVars,
                 authVars, localStorage, botSerial>>

\* deleteDocument without the cascade to the chat sessions
deleteDocumentNoCascade(id) ==
  /\ documents' = SelectSeq(documents, LAMBDA doc : doc.id # id)
  /\ lastCall' = Call("deleteDocument", id)
  /\ UNCHANGED <<paragraphVars, authVars, viewVars, now, chatbots, botSerial, currentScreen, selectedDocumentId,
                 selectedChatbotId, isSending, pending>>
  /\ saveEffects

\* deleteDocument with a cascade that spares no session
deleteDocumentEverySession(id) ==
  /\ documents' = SelectSeq(documents, LAMBDA doc : doc.id # id)
  /\ chatbots' = <<>>
  /\ botSerial' = <<>>
  /\ lastCall' = Call("deleteDocument", id)
  /\ UNCHANGED <<now, currentScreen, selectedDocumentId, selectedChatbotId>>
  /\ Rerender

deleteDocument(id) ==
  LET keep == [i \in DOMAIN chatbots |-> chatbots[i].documentId # id]
  IN  /\ documents' = SelectSeq(documents, LAMBDA doc : doc.id # id)
      /\ chatbots' = SelectSeqBy(chatbots, keep)
      /\ botSerial' = SelectSeqBy(botSerial, keep)
      /\ lastCall' = Call("deleteDocument", id)
      /\ UNCHANGED <<now, currentScreen, selectedDocumentId, selectedChatbotId>>
      /\ Rerender

\* createChatbot without setSelectedChatbotId: the selection stays where it was
createChatbotNoSelect(documentId) ==
  LET document == FindById(documents, documentId)
      newChatbot == [id |-> NewChatbotId(now), documentId |-> documentId,
                     documentName |-> document.name, messages |-> <<>>]
  IN  /\ lastCall' = Call("createChatbot", documentId)
      /\ IF ~HasId(documents, documentId)
         THEN UNCHANGED <<paragraphVars, authVars, localStorage, viewVars, now, documents, chatbots, currentScreen, selectedDocumentId,
                          selectedChatbotId, isSending, pending, botSerial>>
         ELSE /\ chatbots' = Append(chatbots, newChatbot)
              /\ botSerial' = Append(botSerial, FreshSerial)
              /\ currentScreen' = "chatbot"
              /\ UNCHANGED <<now, documents, selectedDocumentId, selectedChatbotId>>
              /\ Rerender

createChatbot(documentId) ==
  LET document == FindById(documents, documentId)
      newChatbot == [id |-> NewChatbotId(now), documentId |-> documentId,
                     documentName |-> document.name, messages |-> <<>>]
  IN  /\ lastCall' = Call("createChatbot", documentId)
      /\ IF ~HasId(documents, documentId)
         THEN UNCHANGED <<paragraphVars, authVars, localStorage, viewVars, now, documents, chatbots, currentScreen, selectedDocumentId,
                          selectedChatbotId, isSending, pending, botSerial>>
         ELSE /\ chatbots' = Append(chatbots, newChatbot)
              /\ botSerial' = Append(botSerial, FreshSerial)
              /\ selectedChatbotId' = newChatbot.id
              /\ currentScreen' = "chatbot"
              /\ UNCHANGED <<now, documents, selectedDocumentId>>
              /\ Rerender

\* the append at the wrong end of the list
addMessageAtFront(bots, chatbotId, message) ==
  [i \in DOMAIN bots |->
     IF bots[i].id = chatbotId
     THEN [bots[i] EXCEPT !.messages = <<message>> \o @]
     ELSE bots[i]]

\* prev.map(bot => bot.id === chatbotId ? {...bot, messages: [...bot.messages, message]} : bot)
addMessageToChatbot(bots, chatbotId, message) ==
  [i \in DOMAIN bots |->
     IF bots[i].id = chatbotId
     THEN [bots[i] EXCEPT !.messages = Append(@, message)]
     ELSE bots[i]]

goToLibrary ==
  /\ currentScreen' = "library"
  /\ lastCall' = Call("goToLibrary", Null)
  /\ UNCHANGED <<now, documents, chatbots, selectedDocumentId, selectedChatbotId,
                 botSerial>>
  /\ Rerender

goToViewer(documentId) ==
  /\ selectedDocumentId' = documentId
  /\ currentScreen' = "viewer"
  /\ lastCall' = Call("goToViewer", documentId)
  /\ UNCHANGED <<now, documents, chatbots, selectedChatbotId, botSerial>>
  /\ Rerender

goToHome ==
  /\ currentScreen' = "home"
  /\ lastCall' = Call("goToHome", Null)
  /\ UNCHANGED <<now, documents, chatbots, selectedDocumentId, selectedChatbotId,
                 botSerial>>
  /\ Rerender

(* --------------------------- the chat view ---------------------------- *)
\* input.trim() is empty
Blank(input) == input = "" \/ input = " "

\* a value JavaScript's || and && treat as false
Falsy(v) == v = NoValue \/ v = ""

\* which createChatbot call made the session the view shows
SelectedSerial ==
  botSerial[FirstIndex(chatbots, selectedChatbotId)]

\* handleSendMessage without the isSending half of its guard
handleSendMessageWhileSending(input) ==
  LET userMessage == [id |-> UserMsgId(now), role |-> "user", content |-> input]
      request == [chatbotId |-> selectedChatbot.id, serial |-> SelectedSerial,
                  userMessage |-> userMessage, mounted |-> TRUE]
  IN  /\ lastCall' = Call("handleSendMessage", input)
      /\ IF Blank(input)
         THEN UNCHANGED <<paragraphVars, authVars, localStorage, viewVars, now,
                          documents, chatbots, currentScreen, selectedDocumentId,
                          selectedChatbotId, isSending, pending, botSerial>>
         ELSE /\ isSending' = TRUE
              /\ chatbots' = addMessageToChatbot(chatbots, selectedChatbot.id, userMessage)
              /\ pending' = Append(pending, request)
              /\ UNCHANGED <<paragraphVars, authVars, viewVars, now, documents,
                             currentScreen, selectedDocumentId, selectedChatbotId,
                             botSerial>>
              /\ saveEffects

\* handleSendMessage up to its await: the guard, the user message, the request
handleSendMessage(input) ==
  LET userMessage == [id |-> UserMsgId(now), role |-> "user", content |-> input]
      request == [chatbotId |-> selectedChatbot.id, serial |-> SelectedSerial,
                  userMessage |-> userMessage, mounted |-> TRUE]
  IN  /\ lastCall' = Call("handleSendMessage", input)
      /\ IF Blank(input) \/ isSending
         THEN UNCHANGED <<paragraphVars, authVars, localStorage, viewVars, now, documents, chatbots, currentScreen, selectedDocumentId,
                          selectedChatbotId, isSending, pending, botSerial>>
         ELSE /\ isSending' = TRUE
              /\ chatbots' = addMessageToChatbot(chatbots, selectedChatbot.id, userMessage)
              /\ pending' = Append(pending, request)
              /\ UNCHANGED <<paragraphVars, authVars, viewVars, now, documents, currentScreen, selectedDocumentId,
                             selectedChatbotId, botSerial>>
              /\ saveEffects

\* the reply built without looking at response.success
ReplyMessageIgnoringSuccess(resp, t) ==
  IF resp.threw
  THEN [id |-> ErrorMsgId(t), role |-> "assistant",
        content |-> "Error: " \o (IF resp.error # NoValue THEN resp.error
                                  ELSE "Failed to send message")]
  ELSE IF ~Falsy(resp.answer) \/ ~Falsy(resp.response)
  THEN [id |-> AiMsgId(t), role |-> "assistant",
        content |-> IF ~Falsy(resp.answer) THEN resp.answer ELSE resp.response]
  ELSE [id |-> ErrorMsgId(t), role |-> "assistant",
        content |-> "Error: " \o (IF ~Falsy(resp.error) THEN resp.error
                                  ELSE "Failed to get response")]

\* the message handleSendMessage builds from the outcome of api.sendChatMessage
ReplyMessage(resp, t) ==
  IF resp.threw
  THEN [id |-> ErrorMsgId(t), role |-> "assistant",
        content |-> "Error: " \o (IF resp.error # NoValue THEN resp.error
                                  ELSE "Failed to send message")]
  ELSE IF resp.success /\ (~Falsy(resp.answer) \/ ~Falsy(resp.response))
  THEN [id |-> AiMsgId(t), role |-> "assistant",
        content |-> IF ~Falsy(resp.answer) THEN resp.answer
                    ELSE IF ~Falsy(resp.response) THEN resp.response
                    ELSE "No response"]
  ELSE [id |-> ErrorMsgId(t), role |-> "assistant",
        content |-> "Error: " \o (IF ~Falsy(resp.error) THEN resp.error
                                  ELSE "Failed to get response")]

\* the reply sent to whatever session is selected when the response arrives
ReplyTargetSelected(req) == selectedChatbotId

\* the session the request's onSendMessage closure appends to: the
\* selectedChatbot.id of the render in which the message was sent
ReplyTarget(req) == req.chatbotId

\* handleSendMessage from its await on: request i settles with outcome resp
handleSendMessageSettled(i, resp) ==
  /\ chatbots' = addMessageToChatbot(chatbots, ReplyTarget(pending[i]), ReplyMessage(resp, now))
  /\ isSending' = IF pending[i].mounted THEN FALSE ELSE isSending
  /\ pending' = SubSeq(pending, 1, i - 1) \o SubSeq(pending, i + 1, Len(pending))
  /\ lastCall' = Call("handleSendMessageSettled", [request |-> pending[i], response |-> resp])
  /\ UNCHANGED <<paragraphVars, authVars, viewVars, now, documents, currentScreen, selectedDocumentId,
                 selectedChatbotId, botSerial>>
  /\ saveEffects

RECURSIVE SumLen(_)
SumLen(bots) == IF bots = <<>> THEN 0 ELSE Len(Head(bots).messages) + SumLen(Tail(bots))
\* messages held by all sessions together
StoredMessages == SumLen(chatbots)

(* -------------------------- the document view ------------------------- *)

\* The page and zoom handlers of DocumentViewer and of ChatbotInterface have
\* the same code; one action stands for both, acting on the view mounted.
ViewFrame ==
  UNCHANGED <<now, documents, chatbots, currentScreen, selectedDocumentId,
              selectedChatbotId, isSending, pending, docInfoLoading,
              paragraphVars, authVars, localStorage, botSerial>>

handlePrevPageUnguarded ==
  /\ MountedView # "none"
  /\ currentPage' = currentPage - 1
  /\ lastCall' = Call("handlePrevPage", NoValue)
  /\ UNCHANGED <<zoom, totalPages, isDocumentExpanded>>
  /\ ViewFrame

handlePrevPage ==
  /\ MountedView # "none"
  /\ currentPage' = IF currentPage > 1 THEN currentPage - 1 ELSE currentPage
  /\ lastCall' = Call("handlePrevPage", NoValue)
  /\ UNCHANGED <<zoom, totalPages, isDocumentExpanded>>
  /\ ViewFrame

handleNextPage ==
  /\ MountedView # "none"
  /\ currentPage' = IF currentPage < totalPages THEN currentPage + 1 ELSE currentPage
  /\ lastCall' = Call("handleNextPage", NoValue)
  /\ UNCHANGED <<zoom, totalPages, isDocumentExpanded>>
  /\ ViewFrame

handleZoomIn ==
  /\ MountedView # "none"
  /\ zoom' = IF zoom < 150 THEN zoom + 10 ELSE zoom
  /\ lastCall' = Call("handleZoomIn", NoValue)
  /\ UNCHANGED <<currentPage, totalPages, isDocumentExpanded>>
  /\ ViewFrame

handleZoomOut ==
  /\ MountedView # "none"
  /\ zoom' = IF zoom > 50 THEN zoom - 10 ELSE zoom
  /\ lastCall' = Call("handleZoomOut", NoValue)
  /\ UNCHANGED <<currentPage, totalPages, isDocumentExpanded>>
  /\ ViewFrame

\* handlePageClick without the range test
handlePageClickUnchecked(pageNum, narrow) ==
  /\ ChatViewShown
  /\ currentPage' = pageNum
  /\ isDocumentExpanded' = (isDocumentExpanded \/ narrow)
  /\ lastCall' = Call("handlePageClick", pageNum)
  /\ UNCHANGED <<zoom, totalPages>>
  /\ ViewFrame

\* a click on a citation button of the chat; narrow is window.innerWidth < 1024
handlePageClick(pageNum, narrow) ==
  /\ ChatViewShown
  /\ IF pageNum >= 1 /\ pageNum <= totalPages
     THEN /\ currentPage' = pageNum
          /\ isDocumentExpanded' = (isDocumentExpanded \/ narrow)
     ELSE UNCHANGED <<currentPage, isDocumentExpanded>>
  /\ lastCall' = Call("handlePageClick", pageNum)
  /\ UNCHANGED <<zoom, totalPages>>
  /\ ViewFrame

\* the expand button of the chat header
toggleExpanded ==
  /\ ChatViewShown
  /\ isDocumentExpanded' = ~isDocumentExpanded
  /\ lastCall' = Call("toggleExpanded", NoValue)
  /\ UNCHANGED <<currentPage, zoom, totalPages>>
  /\ ViewFrame

\* The outcomes of api.getDocumentInfo: the JSON body of an ok response, with
\* or without total_pages, or an Error thrown (fetch failed, status not ok)
DocInfoResponses ==
  { [threw |-> FALSE, success |-> TRUE, hasPages |-> TRUE, total_pages |-> n] :
      n \in 0..MaxPages } \cup
  { [threw |-> FALSE, success |-> TRUE,  hasPages |-> FALSE, total_pages |-> 0],
    [threw |-> FALSE, success |-> FALSE, hasPages |-> FALSE, total_pages |-> 0],
    [threw |-> TRUE,  success |-> FALSE, hasPages |-> FALSE, total_pages |-> 0] }

RECURSIVE Words(_, _, _)
\* The search of a page count reads a text as its tokens: the maximal runs
\* of digits, of white space and of other characters.  Words(text, 1, 1) is
\* the tokens of text; start is where the run being read began
Words(text, start, i) ==
  LET class(c) == IF c \in {"0", "1", "2", "3", "4", "5", "6", "7", "8", "9"} THEN "digit"
                  ELSE IF c \in {" ", "\n", "\t"} THEN "space"
                  ELSE "word"
  IN  IF i > Len(text)
      THEN IF start > Len(text) THEN <<>> ELSE <<SubSeq(text, start, Len(text))>>
      ELSE IF class(Char(text, i)) = class(Char(text, start))
      THEN Words(text, start, i + 1)
      ELSE <<SubSeq(text, start, i - 1)>> \o Words(text, i, i + 1)

IsDigits(tok) == \E n \in 0..9 : ToString(n) = tok
\* parseInt(tok, 10) of a run of digits
ParseInt(tok) == CHOOSE n \in 0..9 : ToString(n) = tok

\* content.match(/(\d+)\s+pages?/i) over the tokens of the content: the
\* positions where the pattern matches, a run of digits, white space and a
\* word that begins with "page" in either case
PageCountMatches(text) ==
  { i \in 1..(Len(text) - 2) :
      /\ IsDigits(text[i])
      /\ text[i + 1] = " "
      /\ text[i + 2] \in {"page", "pages", "Page", "Pages", "PAGE", "PAGES"} }

Min(S) == CHOOSE x \in S : \A y \in S : x <= y

\* The page count the view holds once a getDocumentInfo call has settled:
\* info.total_pages || 1 of a successful body, the number of the leftmost
\* match in the content when the call threw, and the count held otherwise
SettledPages(resp, text, held) ==
  IF resp.threw
  THEN IF PageCountMatches(text) # {}
       THEN ParseInt(text[Min(PageCountMatches(text))])
       ELSE held
  ELSE IF resp.success
       THEN IF resp.hasPages /\ resp.total_pages # 0 THEN resp.total_pages ELSE 1
       ELSE held

\* the continuation of loadDocInfo, run when the getDocumentInfo call of the
\* mounted view settles.  The content is the one of the document captured
\* when the effect ran
loadDocInfoSettled(id, resp) ==
  /\ id \in docInfoLoading
  /\ docInfoLoading' = docInfoLoading \ {id}
  /\ totalPages' = SettledPages(resp, Words(FindById(documents, id).content, 1, 1),
                                totalPages)
  /\ lastCall' = Call("loadDocInfo", [id |-> id, response |-> resp])
  /\ UNCHANGED <<now, documents, chatbots, currentScreen, selectedDocumentId,
                 selectedChatbotId, isSending, pending, currentPage, zoom,
                 isDocumentExpanded, paragraphVars, authVars, localStorage,
                 botSerial>>

(* ----------------------- the citation renderer ------------------------ *)

\* A paragraph is a sequence of tokens: the opening of a citation in either
\* case, one digit, the closing bracket, or one other character.  No run of
\* the other tokens spells an opening, so a match of /\[page \d+\]/i in the
\* paragraph is an opening, one or more digits and a closing bracket.

RECURSIVE DigitsEnd(_, _)
\* the position after the longest run of digits that starts at i
DigitsEnd(text, i) ==
  IF i <= Len(text) /\ IsDigits(text[i]) THEN DigitsEnd(text, i + 1) ELSE i

\* where the match of /\[page \d+\]/i that starts at i ends, 0 when none does
MatchEnd(text, i) ==
  LET e == DigitsEnd(text, i + 1)
  IN  IF text[i] \in {"[page ", "[PAGE "} /\ e > i + 1 /\ e <= Len(text) /\ text[e] = "]"
      THEN e ELSE 0

\* content.split(/(\[page \d+\])/gi) from position i on, the piece under way
\* having begun at start: the pieces between the matches and, for the
\* capturing group, the matches themselves
RECURSIVE SplitFrom(_, _, _)
SplitFrom(text, start, i) ==
  IF i > Len(text)
  THEN << SubSeq(text, start, Len(text)) >>
  ELSE IF MatchEnd(text, i) # 0
       THEN << SubSeq(text, start, i - 1), SubSeq(text, i, MatchEnd(text, i)) >>
              \o SplitFrom(text, MatchEnd(text, i) + 1, MatchEnd(text, i) + 1)
       ELSE SplitFrom(text, start, i + 1)

Split(text) == SplitFrom(text, 1, 1)

\* part.match(/\[page (\d+)\]/i): where the leftmost match starts, 0 when
\* the part holds none
MatchStart(part) ==
  IF \E i \in 1..Len(part) : MatchEnd(part, i) # 0
  THEN Min({ i \in 1..Len(part) : MatchEnd(part, i) # 0 })
  ELSE 0

\* parseInt(digits, 10) of a run of digits
RECURSIVE ParseDigits(_)
ParseDigits(digits) ==
  IF digits = <<>> THEN 0
  ELSE 10 * ParseDigits(SubSeq(digits, 1, Len(digits) - 1)) + ParseInt(digits[Len(digits)])

\* parseInt(match[1], 10) of the leftmost match in the part
PageNumOf(part) ==
  ParseDigits(SubSeq(part, MatchStart(part) + 1, MatchEnd(part, MatchStart(part)) - 1))

\* the renderer with every citation written back as "[page N]"
pNormalised(text) ==
  LET parts == Split(text)
  IN  IF Len(parts) > 1
      THEN [k \in DOMAIN parts |->
              IF MatchStart(parts[k]) # 0
              THEN [tag |-> "button", pageNum |-> PageNumOf(parts[k]),
                    text |-> <<"[page ", ToString(PageNumOf(parts[k])), "]">>]
              ELSE [tag |-> "span", text |-> parts[k]]]
      ELSE << [tag |-> "p", text |-> text] >>

\* The renderer of a paragraph: with a citation in it, one button per part
\* that matches and one span per other part, in the order of the parts; the
\* paragraph as it is otherwise.  text is the part an element stands for
p(text) ==
  LET parts == Split(text)
  IN  IF Len(parts) > 1
      THEN [k \in DOMAIN parts |->
              IF MatchStart(parts[k]) # 0
              THEN [tag |-> "button", pageNum |-> PageNumOf(parts[k]),
                    text |-> parts[k]]
              ELSE [tag |-> "span", text |-> parts[k]]]
      ELSE << [tag |-> "p", text |-> text] >>

(* ------------------- sign-in and the API requests ---------------------- *)
\* a token with a character encodeURIComponent escapes
TokenB == "tok+b"

\* encodeURIComponent of a token: "+" becomes "%2B", letters, digits and "-"
\* stay
encodeURIComponent(str) == IF str = TokenB THEN "tok%2Bb" ELSE str

\* the AuthResponse authApi.login, register and getCurrentUser resolve with;
\* they catch every error and resolve with success false
AuthResponses ==
  { [success |-> TRUE, token |-> t, user |-> u] :
      t \in { TokenA, TokenB }, u \in { UserA, [id |-> "u2", email |-> "b@example.com", name |-> "B"] } } \cup
  { [success |-> TRUE,  token |-> NoValue, user |-> UserA],
    [success |-> FALSE, token |-> NoValue, user |-> NoUser] }

\* tokenStorage: TOKEN_KEY is 'cad_auth_token'.  saveToken catches the error
\* of a setItem the browser refuses (full is TRUE) and leaves the storage
saveToken(ls, tok, full) ==
  IF full THEN ls ELSE [ls EXCEPT !.cad_auth_token = TextItem(tok)]
getToken(ls) == IF ls.cad_auth_token = NoItem THEN Null ELSE ls.cad_auth_token.text
removeToken(ls) == [ls EXCEPT !.cad_auth_token = NoItem]

\* api.ts: localStorage.getItem('authToken')
getAuthToken == IF localStorage.authToken = NoItem THEN Null ELSE localStorage.authToken.text

\* the headers getAuthHeader contributes; Authorization is undefined when
\* the object returned is empty
getAuthHeader ==
  [Authorization |-> IF getAuthToken # Null /\ getAuthToken # ""
                     THEN "Bearer " \o getAuthToken ELSE NoValue]

\* what the operations of AuthProvider leave alone in AppContent.  The
\* render that follows them mounts the screen of the application when the
\* user has become authenticated and unmounts it when they no longer are
AuthFrame ==
  /\ UNCHANGED <<now, documents, chatbots, currentScreen, selectedDocumentId,
                 selectedChatbotId, paragraphVars, botSerial>>
  /\ RerenderViews

\* the body shared by login and register of AuthProvider, from the answer
\* of the backend on: the token is saved, then setToken and setUser are
\* called, which React drops when it has unmounted the tree
SignInWith(result, full) ==
  IF result.success /\ ~Falsy(result.token) /\ result.user # NoUser
  THEN /\ localStorage' = saveToken(localStorage, result.token, full)
       /\ token' = IF TreeUnmounted THEN token ELSE result.token
       /\ user' = IF TreeUnmounted THEN user ELSE result.user
       /\ UNCHANGED <<isLoading, savedToken>>
  ELSE UNCHANGED <<localStorage, authVars>>

login(result, full) ==
  /\ SignInWith(result, full)
  /\ lastCall' = Call("login", result)
  /\ AuthFrame

register(result, full) ==
  /\ SignInWith(result, full)
  /\ lastCall' = Call("register", result)
  /\ AuthFrame

logout ==
  /\ localStorage' = removeToken(localStorage)
  /\ token' = IF TreeUnmounted THEN token ELSE Null
  /\ user' = IF TreeUnmounted THEN user ELSE NoUser
  /\ lastCall' = Call("logout", NoValue)
  /\ UNCHANGED <<isLoading, savedToken>>
  /\ AuthFrame

\* loadUser from its await on: getCurrentUser answers for the token
\* loadUser read when the page mounted.  An accepted answer makes that token
\* and its user the state; a refused one removes whatever token the storage
\* holds by then.  On a tree React has unmounted the setters do nothing
loadUser(result) ==
  /\ savedToken # Null
  /\ savedToken' = Null
  /\ IF result.success /\ result.user # NoUser
     THEN /\ token' = IF TreeUnmounted THEN token ELSE savedToken
          /\ user' = IF TreeUnmounted THEN user ELSE result.user
          /\ UNCHANGED localStorage
     ELSE /\ UNCHANGED <<user, token>>
          /\ localStorage' = removeToken(localStorage)
  /\ isLoading' = IF TreeUnmounted THEN isLoading ELSE FALSE
  /\ lastCall' = Call("loadUser", result)
  /\ AuthFrame

\* the request builders of the API module: what each call puts in its
\* request, the server's answer left out
RequestFrame ==
  UNCHANGED <<now, documents, chatbots, currentScreen, selectedDocumentId,
              selectedChatbotId, isSending, pending, viewVars, paragraphVars,
              authVars, localStorage, botSerial>>

uploadDocument(file) ==
  /\ lastCall' = Call("uploadDocument", [file |-> file.name, headers |-> getAuthHeader])
  /\ RequestFrame

sendChatMessage(sessionId, message) ==
  /\ lastCall' = Call("sendChatMessage",
                      [session_id |-> sessionId, message |-> message,
                       headers |-> getAuthHeader])
  /\ RequestFrame

getDocumentInfo(sessionId) ==
  /\ lastCall' = Call("getDocumentInfo",
                      [session_id |-> sessionId, headers |-> getAuthHeader])
  /\ RequestFrame

\* the token parameter of the URL getPageImageUrl returns, undefined when
\* the URL has none
getPageImageUrl(sessionId, pageNumber) ==
  /\ lastCall' = Call("getPageImageUrl",
                      [session_id |-> sessionId, pageNumber |-> pageNumber,
                       token |-> IF getAuthToken # Null /\ getAuthToken # ""
                                 THEN encodeURIComponent(getAuthToken)
                                 ELSE NoValue])
  /\ RequestFrame

(* --------------------- the snapshot in localStorage -------------------- *)

\* an item JavaScript treats as true: a string that is not empty
TruthyItem(item) == item.kind # "null" /\ ~(item.kind = "text" /\ item.text = "")

\* The five useState initialisers of AppContent over storage ls:
\* saved || 'home', saved ? JSON.parse(saved) : [], getItem(...) || null.
\* raised is the SyntaxError JSON.parse throws out of an initialiser when
\* saved is not the text of a value
LoadedState(ls) ==
  LET docs == IF TruthyItem(ls.documents) THEN JSONparse(ls.documents.text)
              ELSE [ok |-> TRUE, v |-> <<>>, i |-> 0]
      bots == IF TruthyItem(ls.chatbots) THEN JSONparse(ls.chatbots.text)
              ELSE [ok |-> TRUE, v |-> <<>>, i |-> 0]
  IN  [raised             |-> IF docs.ok /\ bots.ok THEN "none" ELSE "SyntaxError",
       currentScreen      |-> IF TruthyItem(ls.currentScreen)
                              THEN ls.currentScreen.text ELSE "home",
       documents          |-> docs.v,
       chatbots           |-> bots.v,
       selectedDocumentId |-> IF TruthyItem(ls.selectedDocumentId)
                              THEN ls.selectedDocumentId.text ELSE Null,
       selectedChatbotId  |-> IF TruthyItem(ls.selectedChatbotId)
                              THEN ls.selectedChatbotId.text ELSE Null]

\* The page mounting over storage ls, as after a reload: AuthProvider starts
\* with no user and no token, AppContent runs its initialisers and its save
\* effects, and the effect of AuthProvider calls loadUser.  Without a saved
\* token loadUser ends the loading before the effect returns and the sign-in
\* page is shown; with one it awaits getCurrentUser and the loading screen
\* stays.  No view is mounted either way; the requests and the views of the
\* page before are gone.  When an initialiser throws, nothing is rendered,
\* no state exists and no effect runs, loadUser included
AppContent(ls) ==
  \E loaded \in { LoadedState(ls) } :
  LET threw == loaded.raised # "none"
  IN  /\ lastCall' = [op |-> "AppContent", arg |-> ls, raised |-> loaded.raised]
      /\ IF threw
         THEN /\ currentScreen' = NoValue
              /\ documents' = <<>>
              /\ chatbots' = <<>>
              /\ selectedDocumentId' = Null
              /\ selectedChatbotId' = Null
              /\ localStorage' = ls
         ELSE /\ currentScreen' = loaded.currentScreen
              /\ documents' = loaded.documents
              /\ chatbots' = loaded.chatbots
              /\ selectedDocumentId' = loaded.selectedDocumentId
              /\ selectedChatbotId' = loaded.selectedChatbotId
              /\ localStorage' = WithSavedItems(ls, ItemsOf(loaded))
      /\ isSending' = FALSE
      /\ pending' = <<>>
      /\ currentPage' = 1
      /\ zoom' = 100
      /\ totalPages' = 1
      /\ isDocumentExpanded' = FALSE
      /\ docInfoLoading' = {}
      /\ user' = NoUser
      /\ token' = Null
      /\ isLoading' = IF threw THEN Null ELSE getToken(ls) # Null /\ getToken(ls) # ""
      /\ savedToken' = IF threw \/ getToken(ls) = "" THEN Null ELSE getToken(ls)
      /\ UNCHANGED <<now, paragraphVars, botSerial>>

\* the keys of the five save effects of AppContent, in the order React runs
\* them: the order of the useEffect calls
EffectKeys ==
  <<"documents", "chatbots", "currentScreen", "selectedDocumentId", "selectedChatbotId">>

\* Storage ls once the first n save effects have run after a render that
\* made st the state: an effect runs when the state it depends on changed
SavedUpTo(ls, st, n) ==
  LET ran(key) == \E k \in 1..n : EffectKeys[k] = key /\ AppState[key] # st[key]
  IN  [ls EXCEPT
         !.documents = IF ran("documents")
                       THEN TextItem(stringifyDocuments(st.documents)) ELSE @,
         !.chatbots = IF ran("chatbots")
                      THEN TextItem(stringifyChatbots(st.chatbots)) ELSE @,
         !.currentScreen = IF ran("currentScreen") THEN TextItem(st.currentScreen) ELSE @,
         !.selectedDocumentId = IF ran("selectedDocumentId")
                                THEN IdItem(st.selectedDocumentId) ELSE @,
         !.selectedChatbotId = IF ran("selectedChatbotId")
                               THEN IdItem(st.selectedChatbotId) ELSE @]

\* the room the items of storage ls take: the key and the value of each
StorageSize(ls) ==
  LET size(key) == IF ls[key] = NoItem THEN 0 ELSE Len(key) + Len(ls[key].text)
  IN  size("documents") + size("chatbots") + size("currentScreen")
      + size("selectedDocumentId") + size("selectedChatbotId")
      + size("cad_auth_token") + size("authToken")

\* A handler has made st the state of AppContent, and one of the save
\* effects that follow calls localStorage.setItem when the storage has no
\* room for the value: setItem throws QuotaExceededError.  How much room is
\* left is up to the browser and to the other pages of the origin, so effect
\* n can be the one that throws whenever it leaves the storage larger than
\* it was before the handler and after each of the effects before it, which
\* have written what they had to write.  No try surrounds the call and no
\* error boundary surrounds AppContent, so React unmounts the tree: the
\* effects behind the failing one do not run, the state of AppContent and
\* of AuthProvider is gone, the views and their requests with it
QuotaExceeded(op, arg, st) ==
  /\ localStorage # Untracked
  /\ currentScreen # NoValue
  /\ LET size == [n \in 0..Len(EffectKeys) |->
                    StorageSize(SavedUpTo(localStorage, st, n))]
     IN  \E n \in DOMAIN EffectKeys :
           /\ AppState[EffectKeys[n]] # st[EffectKeys[n]]
           /\ \A m \in 0..(n - 1) : size[n] > size[m]
           /\ localStorage' = SavedUpTo(localStorage, st, n - 1)
  /\ lastCall' = [op |-> op, arg |-> arg, raised |-> "QuotaExceededError"]
  /\ currentScreen' = NoValue
  /\ documents' = <<>>
  /\ chatbots' = <<>>
  /\ selectedDocumentId' = Null
  /\ selectedChatbotId' = Null
  /\ isSending' = FALSE
  /\ pending' = <<>>
  /\ currentPage' = 1
  /\ zoom' = 100
  /\ totalPages' = 1
  /\ isDocumentExpanded' = FALSE
  /\ docInfoLoading' = {}
  /\ user' = NoUser
  /\ token' = Null
  /\ isLoading' = Null
  /\ UNCHANGED <<now, paragraphVars, savedToken, botSerial>>

\* addDocument when the storage runs full: the save effect of documents
\* throws.  On a tree already unmounted nothing is set and nothing is saved
addDocumentQuotaExceeded(doc) ==
  /\ localStorage # Untracked
  /\ IF TreeUnmounted
     THEN /\ lastCall' = Call("addDocument", doc.id)
          /\ UNCHANGED <<now, documents, chatbots, currentScreen, selectedDocumentId,
                         selectedChatbotId, isSending, pending, viewVars,
                         paragraphVars, authVars, localStorage, botSerial>>
     ELSE QuotaExceeded("addDocument", doc.id,
                        [AppState EXCEPT !.documents = Append(documents, doc)])

\* createChatbot when the storage runs full: the save effect of chatbots,
\* of currentScreen or of selectedChatbotId throws, the ones before it
\* having stored the session and the screen
createChatbotQuotaExceeded(documentId) ==
  /\ HasId(documents, documentId)
  /\ QuotaExceeded("createChatbot", documentId,
                   [AppState EXCEPT
                      !.chatbots = Append(chatbots,
                                          [id |-> NewChatbotId(now),
                                           documentId |-> documentId,
                                           documentName |-> FindById(documents, documentId).name,
                                           messages |-> <<>>]),
                      !.selectedChatbotId = NewChatbotId(now),
                      !.currentScreen = "chatbot"])

\* goToLibrary when the storage runs full: the save effect of currentScreen
\* throws
goToLibraryQuotaExceeded ==
  QuotaExceeded("goToLibrary", Null, [AppState EXCEPT !.currentScreen = "library"])

\* goToViewer when the storage runs full: the save effect of currentScreen
\* throws, or it stores "viewer" and the save effect of selectedDocumentId
\* throws
goToViewerQuotaExceeded(documentId) ==
  QuotaExceeded("goToViewer", documentId,
                [AppState EXCEPT !.selectedDocumentId = documentId,
                                 !.currentScreen = "viewer"])

\* handleSendMessage when the storage runs full: the user message is
\* appended and the save effect of chatbots throws
handleSendMessageQuotaExceeded(input) ==
  /\ ~Blank(input)
  /\ ~isSending
  /\ QuotaExceeded("handleSendMessage", input,
                   [AppState EXCEPT !.chatbots =
                      addMessageToChatbot(chatbots, selectedChatbot.id,
                                          [id |-> UserMsgId(now), role |-> "user",
                                           content |-> input])])

\* the reply appended when the storage runs full
handleSendMessageSettledQuotaExceeded(i, resp) ==
  QuotaExceeded("handleSendMessageSettled",
                [request |-> pending[i], response |-> resp],
                [AppState EXCEPT !.chatbots =
                   addMessageToChatbot(chatbots, ReplyTarget(pending[i]),
                                       ReplyMessage(resp, now))])

(* ------------------------ the application, wired ----------------------- *)
\* HomePage: FileReader.onload builds the Document and calls onDocumentUpload
Upload ==
  \E file \in Files :
    /\ Len(documents) < MaxDocs
    /\ addDocument(NewDoc(now, file))

\* HomePage: onGoToLibrary
OpenLibrary == MainShown /\ currentScreen = "home" /\ goToLibrary

\* HomePage and DocumentLibrary: onViewDocument(doc.id) for a listed document
ViewDocument ==
  \E id \in DocIdsOf(documents) :
    /\ MainShown
    /\ currentScreen \in {"home", "library"}
    /\ goToViewer(id)

\* DocumentViewer: onBack
ViewerBack ==
  /\ ViewerShown
  /\ goToLibrary

\* DocumentLibrary and ChatbotInterface: onBack
Back ==
  /\ \/ MainShown /\ currentScreen = "library"
     \/ ChatViewShown
  /\ goToHome

\* DocumentLibrary: onDeleteDocument(doc.id) for a listed document
Delete ==
  \E id \in DocIdsOf(documents) :
    /\ MainShown
    /\ currentScreen = "library"
    /\ deleteDocument(id)

\* HomePage, DocumentLibrary: onCreateChatbot(doc.id) for a listed document;
\* DocumentViewer: onCreateChatbot(document.id) for the document it shows
Create ==
  \E id \in DocIdsOf(documents) :
    /\ \/ MainShown /\ currentScreen \in {"home", "library"}
       \/ ViewerShown /\ id = selectedDocumentId
    /\ Len(chatbots) < MaxBots
    /\ createChatbot(id)

\* HomePage: the image picked in the search-by-image input has been read.
\* sort(() => Math.random() - 0.5) draws a number for every comparison, so it
\* can leave the documents in any order; two documents are swapped when the
\* number drawn is below 0.5
ImageSearch ==
  \E order \in { f \in [DOMAIN documents -> DOMAIN documents] :
                    \A i, j \in DOMAIN documents : f[i] = f[j] => i = j } :
    handleImageSearch(order)

Next ==
  \/ Tick
  \/ Upload
  \/ ImageSearch
  \/ OpenLibrary
  \/ ViewDocument
  \/ ViewerBack
  \/ Back
  \/ Delete
  \/ Create

Spec == Init /\ [][Next]_vars

(* ---------------- the chat protocol over two documents ----------------- *)
\* the state after two uploads from the cold start
InitChat ==
  /\ now = 1
  /\ documents = <<NewDoc(1, FileA), NewDoc(1, FileB)>>
  /\ chatbots = <<>>
  /\ currentScreen = "home"
  /\ selectedDocumentId = Null
  /\ selectedChatbotId = Null
  /\ isSending = FALSE
  /\ pending = <<>>
  /\ ViewInitial
  /\ docInfoLoading = {}
  /\ localStorage = Untracked
  /\ user = UserA
  /\ token = TokenA
  /\ isLoading = FALSE
  /\ savedToken = Null
  /\ content = <<>>
  /\ rendered = <<>>
  /\ botSerial = <<>>
  /\ lastCall = Call("addDocument", NewDoc(1, FileB).id)

\* ChatbotInterface: the send button or the Enter key
Send ==
  \E input \in Inputs :
    /\ ChatViewShown
    /\ StoredMessages + Len(pending) < MaxChatMsgs
    /\ handleSendMessage(input)

\* the response to a chat request arrives, with an outcome among resps;
\* responses arrive in any order
SettleWith(resps) ==
  \E i \in DOMAIN pending, resp \in resps :
    handleSendMessageSettled(i, resp)

\* an answer from the backend or a failed call
Settle == SettleWith({ r \in Responses : r.threw \/ (r.success /\ ~Falsy(r.answer)) })

NextChat ==
  \/ Tick
  \/ OpenLibrary
  \/ Back
  \/ Delete
  \/ Create
  \/ Send
  \/ Settle

SpecChat == InitChat /\ [][NextChat]_vars

(* ------------------- one conversation, every outcome ------------------- *)
\* HomePage: onCreateChatbot for a listed document while no session exists
CreateFirst == chatbots = <<>> /\ Create

\* ChatbotInterface: onBack
LeaveChat == ChatViewShown /\ Back

\* the response arrives with any outcome of api.sendChatMessage
SettleAny == SettleWith(Responses)

NextReply ==
  \/ Tick
  \/ CreateFirst
  \/ LeaveChat
  \/ Send
  \/ SettleAny

SpecReply == InitChat /\ [][NextReply]_vars

\* the same conversation when every call of api.sendChatMessage settles: the
\* promise of a request in flight resolves or rejects in the end
SpecReplyFair == SpecReply /\ WF_vars(SettleAny)

(* -------------------- the handlers, called directly -------------------- *)
\* the documents a caller passes: what an upload of each file builds at the
\* first clock reading
ApiDocs == { NewDoc(1, f) : f \in Files }

\* the ids a caller passes: stored or not at the time of the call
ApiDocIds == { d.id : d \in ApiDocs }

ApiAddDocument ==
  \E doc \in ApiDocs :
    /\ Len(documents) < MaxDocs
    /\ addDocument(doc)

ApiDeleteDocument == \E id \in ApiDocIds : deleteDocument(id)

ApiCreateChatbot ==
  \E id \in ApiDocIds :
    /\ Len(chatbots) < MaxBots
    /\ createChatbot(id)

ApiGoToViewer == \E id \in ApiDocIds : goToViewer(id)

NextApi ==
  \/ Tick
  \/ ApiAddDocument
  \/ ApiDeleteDocument
  \/ ApiCreateChatbot
  \/ ApiGoToViewer
  \/ goToLibrary
  \/ goToHome

SpecApi == Init /\ [][NextApi]_vars

(* ------------------------- the document views ------------------------ *)

\* The viewer and the chat over the two documents of InitChat, with the
\* buttons of the document view; citation clicks carry any page number.
PageClick == \E n \in 0..(MaxPages + 1), narrow \in BOOLEAN : handlePageClick(n, narrow)
DocInfoArrives ==
  \E id \in docInfoLoading, resp \in DocInfoResponses : loadDocInfoSettled(id, resp)

NextView ==
  \/ OpenLibrary
  \/ ViewDocument
  \/ ViewerBack
  \/ CreateFirst
  \/ LeaveChat
  \/ handlePrevPage
  \/ handleNextPage
  \/ handleZoomIn
  \/ handleZoomOut
  \/ PageClick
  \/ toggleExpanded
  \/ DocInfoArrives

SpecView == InitChat /\ [][NextView]_vars

(* ----------------------- paragraphs and citations ---------------------- *)

\* every paragraph of at most MaxTokens tokens
Paragraphs ==
  UNION { [1..n -> {"[page ", "[PAGE ", "0", "2", "]", "x"}] : n \in 0..MaxTokens }

\* an assistant message whose paragraph is about to be rendered
InitCite ==
  /\ now = 1
  /\ documents = <<>>
  /\ chatbots = <<>>
  /\ currentScreen = "home"
  /\ selectedDocumentId = Null
  /\ selectedChatbotId = Null
  /\ isSending = FALSE
  /\ pending = <<>>
  /\ ViewInitial
  /\ docInfoLoading = {}
  /\ localStorage = Untracked
  /\ user = UserA
  /\ token = TokenA
  /\ isLoading = FALSE
  /\ savedToken = Null
  /\ content \in Paragraphs
  /\ rendered = <<>>
  /\ botSerial = <<>>
  /\ lastCall = Call("ReactMarkdown", Null)

RenderParagraph ==
  /\ lastCall.op = "ReactMarkdown"
  /\ rendered' = p(content)
  /\ lastCall' = Call("p", Null)
  /\ UNCHANGED <<now, documents, chatbots, currentScreen, selectedDocumentId,
                 selectedChatbotId, isSending, pending, viewVars, content,
                 authVars, localStorage, botSerial>>

NextCite == RenderParagraph

SpecCite == InitCite /\ [][NextCite]_vars

(* ------------------------ the stored application ---------------------- *)

\* the storage of a browser in which UserA has signed in and done nothing
\* else: the token saved by tokenStorage.saveToken
SignedInStorage == [EmptyStorage EXCEPT !.cad_auth_token = TextItem(TokenA)]

\* what the browser holds when the page is opened: nothing but the token, a
\* snapshot of an earlier visit, text that is not JSON, a screen the
\* application does not have
Snapshots ==
  { SignedInStorage,
    [SignedInStorage EXCEPT !.documents = TextItem(stringifyDocuments(<<NewDoc(1, FileA)>>)),
                            !.chatbots = TextItem("[]"),
                            !.currentScreen = TextItem("library")],
    [SignedInStorage EXCEPT !.documents = TextItem("{not json")],
    [SignedInStorage EXCEPT !.chatbots = TextItem("{not json")],
    [SignedInStorage EXCEPT !.currentScreen = TextItem("settings")] }

\* the page opened over one of the snapshots: the state AppContent(ls) leaves,
\* loadUser under way
InitStore ==
  \E ls \in Snapshots : \E loaded \in { LoadedState(ls) } :
    LET threw == loaded.raised # "none"
    IN  /\ now = 1
        /\ lastCall = [op |-> "AppContent", arg |-> ls, raised |-> loaded.raised]
        /\ IF threw
           THEN /\ currentScreen = NoValue
                /\ documents = <<>>
                /\ chatbots = <<>>
                /\ selectedDocumentId = Null
                /\ selectedChatbotId = Null
                /\ localStorage = ls
           ELSE /\ currentScreen = loaded.currentScreen
                /\ documents = loaded.documents
                /\ chatbots = loaded.chatbots
                /\ selectedDocumentId = loaded.selectedDocumentId
                /\ selectedChatbotId = loaded.selectedChatbotId
                /\ localStorage = WithSavedItems(ls, ItemsOf(loaded))
        /\ isSending = FALSE
        /\ pending = <<>>
        /\ ViewInitial
        /\ docInfoLoading = {}
        /\ user = NoUser
        /\ token = Null
        /\ isLoading = IF threw THEN Null ELSE getToken(ls) # Null /\ getToken(ls) # ""
        /\ savedToken = IF threw \/ getToken(ls) = "" THEN Null ELSE getToken(ls)
        /\ content = <<>>
        /\ rendered = <<>>
        /\ botSerial = <<>>

\* the user reloads the page
Reload == AppContent(localStorage)

\* getCurrentUser answers: the saved token is accepted for UserA or refused
LoadUser ==
  \E result \in { r \in AuthResponses : r.user \in { UserA, NoUser } } :
    loadUser(result)

\* LoginPage: the form submitted, shown while nobody is signed in; the
\* backend accepts UserA or refuses
SignIn ==
  /\ ~TreeUnmounted
  /\ ~isLoading
  /\ ~isAuthenticated
  /\ \E result \in { r \in AuthResponses :
                       (r.success /\ r.token = TokenA /\ r.user = UserA) \/ ~r.success } :
       login(result, FALSE)

NextStore ==
  \/ Upload
  \/ ImageSearch
  \/ LoadUser
  \/ SignIn
  \/ OpenLibrary
  \/ ViewDocument
  \/ ViewerBack
  \/ Back
  \/ CreateFirst
  \/ Send
  \/ Settle
  \/ Reload

SpecStore == InitStore /\ [][NextStore]_vars

(* ------------------------- the storage runs full ---------------------- *)

\* The page opened over a storage that holds the token only.  Whether the
\* storage has room left is up to the browser and the other pages of the
\* origin: a save effect that writes a longer value may find it full.
InitQuota == InitStore /\ lastCall.arg = SignedInStorage

UploadOverQuota ==
  \E file \in Files :
    /\ Len(documents) < MaxDocs
    /\ addDocumentQuotaExceeded(NewDoc(now, file))

OpenLibraryOverQuota ==
  MainShown /\ currentScreen = "home" /\ goToLibraryQuotaExceeded

ViewDocumentOverQuota ==
  \E id \in DocIdsOf(documents) :
    /\ MainShown
    /\ currentScreen \in {"home", "library"}
    /\ goToViewerQuotaExceeded(id)

ViewerBackOverQuota == ViewerShown /\ goToLibraryQuotaExceeded

CreateFirstOverQuota ==
  \E id \in DocIdsOf(documents) :
    /\ \/ MainShown /\ currentScreen \in {"home", "library"}
       \/ ViewerShown /\ id = selectedDocumentId
    /\ chatbots = <<>>
    /\ createChatbotQuotaExceeded(id)

SendOverQuota ==
  \E input \in Inputs :
    /\ ChatViewShown
    /\ StoredMessages + Len(pending) < MaxChatMsgs
    /\ handleSendMessageQuotaExceeded(input)

SettleOverQuota ==
  \E i \in DOMAIN pending,
     resp \in { r \in Responses : r.threw \/ (r.success /\ ~Falsy(r.answer)) } :
    handleSendMessageSettledQuotaExceeded(i, resp)

NextQuota ==
  \/ Upload
  \/ LoadUser
  \/ UploadOverQuota
  \/ OpenLibrary
  \/ OpenLibraryOverQuota
  \/ ViewDocument
  \/ ViewDocumentOverQuota
  \/ ViewerBack
  \/ ViewerBackOverQuota
  \/ Back
  \/ CreateFirst
  \/ CreateFirstOverQuota
  \/ Send
  \/ SendOverQuota
  \/ Settle
  \/ SettleOverQuota
  \/ Reload

SpecQuota == InitQuota /\ [][NextQuota]_vars

(* ------------------------- signing in and out ------------------------- *)
\* a first visit: nothing stored, nobody signed in, the home state saved by
\* the effects of AppContent behind the sign-in page
InitAuth ==
  /\ now = 1
  /\ documents = <<>>
  /\ chatbots = <<>>
  /\ currentScreen = "home"
  /\ selectedDocumentId = Null
  /\ selectedChatbotId = Null
  /\ isSending = FALSE
  /\ pending = <<>>
  /\ ViewInitial
  /\ docInfoLoading = {}
  /\ localStorage = WithSavedItems(EmptyStorage, SavedItems)
  /\ user = NoUser
  /\ token = Null
  /\ isLoading = FALSE
  /\ savedToken = Null
  /\ content = <<>>
  /\ rendered = <<>>
  /\ botSerial = <<>>
  /\ lastCall = Call("loadUser", [success |-> FALSE, token |-> NoValue, user |-> NoUser])

Login == \E result \in AuthResponses, full \in BOOLEAN : login(result, full)
Register == \E result \in AuthResponses, full \in BOOLEAN : register(result, full)
RequestUpload == \E file \in Files : uploadDocument(file)
RequestChat == \E id \in ApiDocIds, input \in Inputs : sendChatMessage(id, input)
RequestDocInfo == \E id \in ApiDocIds : getDocumentInfo(id)
RequestPageImage ==
  \E id \in ApiDocIds, n \in 1..MaxPages : getPageImageUrl(id, n)

NextAuth ==
  \/ Login
  \/ Register
  \/ logout
  \/ Reload
  \/ LoadUser
  \/ RequestUpload
  \/ RequestChat
  \/ RequestDocInfo
  \/ RequestPageImage

SpecAuth == InitAuth /\ [][NextAuth]_vars

(* ------------------------------ the claims ----------------------------- *)
\* the step is a call of handler op (every handler records itself; the clock
\* does not move while a handler runs)
IsCall(op) == lastCall'.op = op /\ now' = now

\* C1: every chat session's documentId is the id of a stored document, in
\* every state reached by uploads, deletions, chatbot creations and appends
C1_ReferentialIntegrity ==
  \A i \in DOMAIN chatbots : chatbots[i].documentId \in DocIdsOf(documents)

\* a deletion has just removed the selected session with its document while
\* another document keeps its session
C1_Witness ==
  /\ lastCall.op = "deleteDocument"
  /\ documents # <<>>
  /\ chatbots # <<>>
  /\ selectedChatbotId # Null
  /\ ~HasId(chatbots, selectedChatbotId)

\* C2: on the viewer screen the selected document exists, and on the chatbot
\* screen the selected chat session exists, in whatever order goToViewer,
\* createChatbot, the back navigation and deleteDocument have been called
C2_NavigationValid ==
  /\ currentScreen = "viewer" => HasId(documents, selectedDocumentId)
  /\ currentScreen = "chatbot" => HasId(chatbots, selectedChatbotId)

\* a call of createChatbot whose argument is the id of no stored document
CreateUnknown ==
  IsCall("createChatbot") /\ lastCall'.arg \notin DocIdsOf(documents)

\* C3: createChatbot(id) for an id of no stored document fails with
\* NotFoundError and changes neither the store nor the navigation
C3_Original ==
  [][CreateUnknown =>
       /\ lastCall'.raised = "NotFoundError"
       /\ UNCHANGED <<documents, chatbots, currentScreen, selectedDocumentId,
                      selectedChatbotId>>]_vars

IsPrefix(s, t) == Len(s) <= Len(t) /\ SubSeq(t, 1, Len(s)) = s
Last(s) == s[Len(s)]
Settled == "handleSendMessageSettled"

\* C4: a response whose session does not exist any more, removed by the
\* cascade of deleteDocument while the request was pending, creates no
\* session and no message, leaves every session and document as it was, and
\* raises no error.  The session of a request is the one createChatbot made,
\* whatever id it was given
C4_DanglingAppendIsNoOp ==
  [][/\ IsCall(Settled)
     /\ \A k \in DOMAIN botSerial : botSerial[k] # lastCall'.arg.request.serial
     => /\ chatbots' = chatbots
        /\ documents' = documents
        /\ lastCall'.raised = "none"]_vars

\* C5: in every step, the message list a session had before the step is a
\* prefix of the list it has after it, and the list grows by at most one
C5_AppendOnly ==
  [][\A i \in DOMAIN chatbots : \A j \in DOMAIN chatbots' :
       botSerial[i] = botSerial'[j] =>
         /\ IsPrefix(chatbots[i].messages, chatbots'[j].messages)
         /\ Len(chatbots'[j].messages) <= Len(chatbots[i].messages) + 1]_vars

\* a reply has just been appended behind a user message
C5_Witness ==
  /\ lastCall.op = Settled
  /\ \E k \in DOMAIN chatbots :
        /\ Len(chatbots[k].messages) >= 2
        /\ chatbots[k].messages[1].role = "user"
        /\ chatbots[k].messages[2].role = "assistant"

\* C6: a send appends the user message to the session the view shows and
\* issues the request for that session; when the response arrives, that
\* session, if it still exists, holds the user message and receives the
\* assistant reply at its tail, whichever session is selected by then
C6_ReplyToIssuingSession ==
  [][/\ IsCall("handleSendMessage") /\ Len(pending') = Len(pending) + 1 =>
          LET r == Last(pending')
              k == FirstIndex(chatbots, selectedChatbotId)
          IN  /\ r.serial = botSerial[k]
              /\ chatbots'[k].messages = Append(chatbots[k].messages, r.userMessage)
     /\ IsCall(Settled) =>
          LET r == lastCall'.arg.request
          IN  \A k \in DOMAIN chatbots :
                botSerial[k] = r.serial =>
                  /\ \E n \in DOMAIN chatbots[k].messages :
                        chatbots[k].messages[n] = r.userMessage
                  /\ Len(chatbots'[k].messages) = Len(chatbots[k].messages) + 1
                  /\ IsPrefix(chatbots[k].messages, chatbots'[k].messages)
                  /\ Last(chatbots'[k].messages).role = "assistant"]_vars

\* two sessions each hold a user message and its reply, and the reply that
\* has just arrived went to the session that is not the selected one
C6_Witness ==
  /\ lastCall.op = Settled
  /\ currentScreen = "chatbot"
  /\ Len(chatbots) = 2
  /\ chatbots[1].id # chatbots[2].id
  /\ \A k \in DOMAIN chatbots :
        /\ Len(chatbots[k].messages) = 2
        /\ chatbots[k].messages[2].role = "assistant"
  /\ \E k \in DOMAIN chatbots :
        /\ botSerial[k] = lastCall.arg.request.serial
        /\ chatbots[k].id # selectedChatbotId

\* contents that communicate an error
IsErrorContent(c) ==
  c \in { "Error: " \o e : e \in {"Chat failed: Bad Gateway", "no session", "Failed to get response",
                                   "Failed to send message"} }

\* the session of request r, if it still exists, receives exactly message m
\* at its tail and keeps its earlier messages
AppendsExactly(r, m) ==
  \A k \in DOMAIN chatbots :
    botSerial[k] = r.serial => chatbots'[k].messages = Append(chatbots[k].messages, m)

\* C7 as stated: a response arriving while its session exists appends one
\* assistant message, the answer text when the backend returns success with
\* an answer and an error text in every other case; no error escapes
C7_Original ==
  [][IsCall(Settled) =>
       LET r == lastCall'.arg.request
           resp == lastCall'.arg.response
       IN  /\ lastCall'.raised = "none"
           /\ \E m \in { ReplyMessage(x, now) : x \in Responses } :
                 /\ AppendsExactly(r, m)
                 /\ m.role = "assistant"
                 /\ IF ~resp.threw /\ resp.success /\ ~Falsy(resp.answer)
                    THEN m.content = resp.answer
                    ELSE IsErrorContent(m.content)]_vars

\* C7 as amended: the appended assistant message is the answer text when the
\* backend returns success with an answer, the text of the response field
\* when it returns success with that field and no answer, and an error text
\* in every other case; no error escapes
C7_OneReplyPerResponse ==
  [][IsCall(Settled) =>
       LET r == lastCall'.arg.request
           resp == lastCall'.arg.response
       IN  /\ lastCall'.raised = "none"
           /\ \E m \in { ReplyMessage(x, now) : x \in Responses } :
                 /\ AppendsExactly(r, m)
                 /\ m.role = "assistant"
                 /\ IF ~resp.threw /\ resp.success /\ ~Falsy(resp.answer)
                    THEN m.content = resp.answer
                    ELSE IF ~resp.threw /\ resp.success /\ ~Falsy(resp.response)
                    THEN m.content = resp.response
                    ELSE IsErrorContent(m.content)]_vars

\* a success response that carries only the response field has just been
\* appended, as its text, behind the user message of its session
C7_Witness ==
  /\ lastCall.op = Settled
  /\ lastCall.arg.response.success
  /\ Falsy(lastCall.arg.response.answer)
  /\ \E k \in DOMAIN chatbots :
        /\ botSerial[k] = lastCall.arg.request.serial
        /\ Len(chatbots[k].messages) = 2
        /\ chatbots[k].messages[2].content = "legacy"

\* C8: the ids of the chat sessions are pairwise distinct
C8_UniqueChatbotIds ==
  \A i \in DOMAIN chatbots : \A j \in DOMAIN chatbots :
    i # j => chatbots[i].id # chatbots[j].id

\* C9: within each chat session the ids of the messages are pairwise distinct
C9_UniqueMessageIds ==
  \A k \in DOMAIN chatbots :
    \A i \in DOMAIN chatbots[k].messages : \A j \in DOMAIN chatbots[k].messages :
      i # j => chatbots[k].messages[i].id # chatbots[k].messages[j].id

\* C10: addDocument with the id of a stored document fails with
\* DuplicateIdError and leaves the store unchanged, so that the ids of the
\* documents are pairwise distinct
C10_DuplicateRejected ==
  [][IsCall("addDocument") /\ lastCall'.arg \in DocIdsOf(documents) =>
       /\ lastCall'.raised = "DuplicateIdError"
       /\ UNCHANGED <<documents, chatbots>>]_vars

\* C11: createChatbot(D) for a stored document D appends exactly one session,
\* with documentId D, the name D has at that moment and no messages, leaves
\* the documents and the other sessions as they were, and shows the chatbot
\* screen with the new session's id selected
C11_CreateAddsSession ==
  [][IsCall("createChatbot") /\ HasId(documents, lastCall'.arg) =>
       LET D == FindById(documents, lastCall'.arg)
       IN  /\ Len(chatbots') = Len(chatbots) + 1
           /\ SubSeq(chatbots', 1, Len(chatbots)) = chatbots
           /\ Last(chatbots').documentId = D.id
           /\ Last(chatbots').documentName = D.name
           /\ Last(chatbots').messages = <<>>
           /\ documents' = documents
           /\ currentScreen' = "chatbot"
           /\ selectedChatbotId' = Last(chatbots').id]_vars

\* a second session has just been created for the document the viewer was
\* opened on, next to a session of the other document
C11_Witness ==
  /\ lastCall.op = "createChatbot"
  /\ selectedDocumentId = lastCall.arg
  /\ currentScreen = "chatbot"
  /\ Len(chatbots) = 2
  /\ chatbots[1].documentId # chatbots[2].documentId
  /\ chatbots[2].documentId = lastCall.arg
  /\ selectedChatbotId = chatbots[2].id

\* C12: goToViewer(id) for an id of no stored document fails with
\* NotFoundError and leaves the screen and selectedDocumentId as they were;
\* for the id of a stored document it shows the viewer with that id selected
C12_ViewerTransition ==
  [][IsCall("goToViewer") =>
       IF HasId(documents, lastCall'.arg)
       THEN /\ currentScreen' = "viewer"
            /\ selectedDocumentId' = lastCall'.arg
       ELSE /\ lastCall'.raised = "NotFoundError"
            /\ UNCHANGED <<currentScreen, selectedDocumentId>>]_vars

\* the screen is the viewer or the chatbot and what it refers to is not stored
Dangling ==
  \/ currentScreen = "viewer" /\ ~HasId(documents, selectedDocumentId)
  \/ currentScreen = "chatbot" /\ ~HasId(chatbots, selectedChatbotId)

\* C13: a viewer or chatbot screen whose document or session is not stored
\* does not outlive the next handler and the render that follows it: the
\* application is taken to Home, at least off the dangling reference
C13_Reconciled ==
  [][Dangling /\ now' = now => ~Dangling']_vars

PageValid == 1 <= currentPage /\ currentPage <= totalPages
ZoomValid == 50 <= zoom /\ zoom <= 150

\* C14: with the page count fixed and page and zoom within their bounds,
\* every call of handlePrevPage, handleNextPage, handleZoomIn and
\* handleZoomOut leaves 1 <= currentPage <= totalPages and 50 <= zoom <= 150;
\* the call moves the page by exactly 1 or the zoom by exactly 10, except at
\* a bound, where it changes nothing; the page count and the rest of the
\* application are never touched.
C14_PageZoomSteps ==
  [][lastCall'.op \in {"handlePrevPage", "handleNextPage", "handleZoomIn", "handleZoomOut"}
       /\ now' = now /\ PageValid /\ ZoomValid =>
       /\ PageValid' /\ ZoomValid'
       /\ lastCall'.raised = "none"
       /\ UNCHANGED <<totalPages, isDocumentExpanded, documents, chatbots,
                      currentScreen, selectedDocumentId, selectedChatbotId>>
       /\ IsCall("handlePrevPage") =>
            /\ zoom' = zoom
            /\ currentPage' = IF currentPage = 1 THEN 1 ELSE currentPage - 1
       /\ IsCall("handleNextPage") =>
            /\ zoom' = zoom
            /\ currentPage' = IF currentPage = totalPages THEN totalPages ELSE currentPage + 1
       /\ IsCall("handleZoomIn") =>
            /\ currentPage' = currentPage
            /\ zoom' = IF zoom = 150 THEN 150 ELSE zoom + 10
       /\ IsCall("handleZoomOut") =>
            /\ currentPage' = currentPage
            /\ zoom' = IF zoom = 50 THEN 50 ELSE zoom - 10]_vars

\* the last page of a document of MaxPages pages at full zoom, reached by
\* handleNextPage
C14_Witness ==
  /\ lastCall.op = "handleNextPage"
  /\ totalPages = MaxPages
  /\ currentPage = totalPages
  /\ zoom = 150

\* C15: in every reachable state of an open document view the page shown
\* lies within the page count, 1 <= currentPage <= totalPages, whatever
\* document-info responses and content-derived counts have been applied
\* between the page moves.
C15_PageWithinCount == MountedView # "none" => PageValid

\* C16: handlePageClick(n), the click on a citation: when n lies outside
\* 1..totalPages the page, the zoom, the expanded flag and the screen are
\* left as they were; when 1 <= n <= totalPages the page becomes n and the
\* zoom is left as it was.
C16_PageClick ==
  [][IsCall("handlePageClick") =>
       LET n == lastCall'.arg
       IN  /\ lastCall'.raised = "none"
           /\ IF n < 1 \/ n > totalPages
              THEN UNCHANGED <<currentPage, zoom, isDocumentExpanded, currentScreen,
                               selectedDocumentId, selectedChatbotId>>
              ELSE currentPage' = n /\ zoom' = zoom]_vars

\* a citation of the last page clicked in a chat whose document view is
\* zoomed, on a narrow window
C16_Witness ==
  /\ lastCall.op = "handlePageClick"
  /\ lastCall.arg = MaxPages
  /\ currentPage = MaxPages
  /\ zoom # 100
  /\ isDocumentExpanded

RECURSIVE Flatten(_)
Flatten(seqs) == IF seqs = <<>> THEN <<>> ELSE Head(seqs) \o Flatten(Tail(seqs))

\* the text each element of a rendered paragraph stands for, in order
TextsOf(elements) == [k \in DOMAIN elements |-> elements[k].text]

\* C17: the citation renderer partitions its paragraph without loss: the
\* elements it returns, each taken as the text it stands for (a citation as
\* the literal text that was matched), put together in the order returned,
\* give the paragraph back, whatever well-formed and malformed citations
\* it holds.
C17_LosslessPartition ==
  lastCall.op = "p" => Flatten(TextsOf(rendered)) = content

\* a paragraph of two citations and nothing else, the first in capitals
C17_Witness ==
  /\ lastCall.op = "p"
  /\ content = <<"[PAGE ", "2", "]", "[page ", "0", "]">>
  /\ Len(rendered) = 5
  /\ rendered[2].tag = "button"
  /\ rendered[2].text = <<"[PAGE ", "2", "]">>
  /\ rendered[4].tag = "button"
  /\ rendered[3].text = <<>>

\* C18: an element of a rendered paragraph is a citation only when the
\* number between the brackets is a positive integer, which the citation then
\* carries; "[page 0]" and "[page x]" come out as plain text.
C18_PositivePagesOnly ==
  lastCall.op = "p" =>
    \A k \in DOMAIN rendered :
      rendered[k].tag = "button" =>
        /\ rendered[k].pageNum >= 1
        /\ rendered[k].pageNum = PageNumOf(rendered[k].text)

\* C19: loading what the save effects wrote gives the state back: a reload
\* of the page leaves the documents, the chat sessions with their messages,
\* the screen and both selected ids as they were, the empty state included.
C19_RoundTrip ==
  [][/\ IsCall("AppContent")
     /\ lastCall'.arg = WithSavedItems(lastCall'.arg, SavedItems)
     => /\ lastCall'.raised = "none"
        /\ UNCHANGED <<documents, chatbots, currentScreen, selectedDocumentId,
                       selectedChatbotId>>]_vars

\* a reload in the middle of a conversation opened from the viewer
C19_Witness ==
  /\ lastCall.op = "AppContent"
  /\ lastCall.raised = "none"
  /\ Len(documents) = 2
  /\ currentScreen = "chatbot"
  /\ selectedDocumentId # Null
  /\ Len(chatbots) = 1
  /\ selectedChatbotId = chatbots[1].id
  /\ Len(chatbots[1].messages) >= 2

\* the snapshot cannot be decoded or has the wrong shape
Corrupt(ls) ==
  \/ LoadedState(ls).raised # "none"
  \/ /\ TruthyItem(ls.currentScreen)
     /\ ls.currentScreen.text \notin {"home", "library", "viewer", "chatbot"}

\* C20: the load lets no error escape, and over a snapshot that cannot be
\* decoded or has the wrong shape it gives the empty baseline: no documents,
\* no sessions, the home screen, nothing selected.
C20_LoadFailsSoft ==
  lastCall.op = "AppContent" =>
    /\ lastCall.raised = "none"
    /\ Corrupt(lastCall.arg) =>
         /\ documents = <<>>
         /\ chatbots = <<>>
         /\ currentScreen = "home"
         /\ selectedDocumentId = Null
         /\ selectedChatbotId = Null

\* C21: a write to the storage that fails while an upload is saved is caught:
\* no error escapes addDocument, and the document it added is in memory
\* afterwards, the application going on with the state it had.
C21_SaveFailureNonFatal ==
  lastCall.op = "addDocument" =>
    /\ lastCall.raised = "none"
    /\ HasId(documents, lastCall.arg)

\* C22: whenever the application is at rest, after any handler has run and
\* its save effects with it, the storage holds the state in memory: the
\* documents and the sessions as JSON, the screen, each selected id under its
\* key, and no key for a selection that is null; and a state just mounted
\* is the one the initialisers read from the storage found.
C22_SnapshotFollowsState ==
  lastCall.raised = "none" /\ ~TreeUnmounted =>
    /\ localStorage.documents = TextItem(stringifyDocuments(documents))
    /\ localStorage.chatbots = TextItem(stringifyChatbots(chatbots))
    /\ localStorage.currentScreen = TextItem(currentScreen)
    /\ localStorage.selectedDocumentId =
         IF selectedDocumentId = Null THEN NoItem ELSE TextItem(selectedDocumentId)
    /\ localStorage.selectedChatbotId =
         IF selectedChatbotId = Null THEN NoItem ELSE TextItem(selectedChatbotId)
    /\ lastCall.op = "AppContent" =>
         /\ documents = LoadedState(lastCall.arg).documents
         /\ chatbots = LoadedState(lastCall.arg).chatbots
         /\ currentScreen = LoadedState(lastCall.arg).currentScreen
         /\ selectedDocumentId = LoadedState(lastCall.arg).selectedDocumentId
         /\ selectedChatbotId = LoadedState(lastCall.arg).selectedChatbotId

\* C23: back navigation never fails: in every state whose screen is the
\* viewer the back control of the viewer can be used, and in every state
\* whose screen is the chat the back control of the chat can, whatever the
\* store holds; back from the viewer gives the library and back from the
\* chat gives the home screen, the documents and the sessions with their
\* messages staying as they were.
C23_BackNeverFails ==
  /\ [](currentScreen = "viewer" => ENABLED ViewerBack)
  /\ [](currentScreen = "chatbot" => ENABLED LeaveChat)
  /\ [][/\ IsCall("goToLibrary") /\ currentScreen = "viewer" =>
             currentScreen' = "library" /\ UNCHANGED <<documents, chatbots>>
        /\ IsCall("goToHome") /\ currentScreen = "chatbot" =>
             currentScreen' = "home" /\ UNCHANGED <<documents, chatbots>>]_vars

\* C24: deleteDocument(id) removes the documents whose id is id and the
\* sessions whose documentId is id, and nothing else: the other documents
\* and the other sessions, messages included, stay in their order, the
\* screen and the selected ids stay; when no document has the id nothing
\* changes and no error is raised.
C24_DeleteFrame ==
  [][IsCall("deleteDocument") =>
       LET id == lastCall'.arg
       IN  /\ lastCall'.raised = "none"
           /\ documents' = SelectSeq(documents, LAMBDA doc : doc.id # id)
           /\ chatbots' = SelectSeq(chatbots, LAMBDA bot : bot.documentId # id)
           /\ UNCHANGED <<currentScreen, selectedDocumentId, selectedChatbotId>>
           /\ ~HasId(documents, id) => UNCHANGED <<documents, chatbots>>]_vars

\* a document deleted together with the first session made, the second
\* session and its document left
C24_Witness ==
  /\ lastCall.op = "deleteDocument"
  /\ Len(documents) = 1
  /\ ~HasId(documents, lastCall.arg)
  /\ Len(chatbots) = 1
  /\ botSerial[1] > 1
  /\ chatbots[1].documentId = documents[1].id

\* C25: whenever the chat screen is shown, selectedDocumentId is not null,
\* is the id of a stored document, and is the documentId of the selected
\* chat session.
C25_ChatSelectsItsDocument ==
  currentScreen = "chatbot" =>
    /\ selectedDocumentId # Null
    /\ HasId(documents, selectedDocumentId)
    /\ \A i \in DOMAIN chatbots :
         chatbots[i].id = selectedChatbotId =>
           chatbots[i].documentId = selectedDocumentId

\* C26: the page count of an open document view is at least 1 in every
\* reachable state, whatever the document-info response carries and
\* whatever number the search of the content finds.
C26_PageCountPositive == MountedView # "none" => totalPages >= 1

\* C27: when the document-info call of an open view throws or completes
\* with success = false, and the content holds an "N pages" hint, the page
\* count becomes N; a successful response sets the count it carries
\* (1 when it carries none), whatever count was held before.
C27_FallbackWhenNoCount ==
  [][IsCall("loadDocInfo") =>
       LET resp == lastCall'.arg.response
           text == Words(FindById(documents, lastCall'.arg.id).content, 1, 1)
       IN  /\ (resp.threw \/ ~resp.success) /\ PageCountMatches(text) # {}
                => totalPages' = ParseInt(text[Min(PageCountMatches(text))])
           /\ ~resp.threw /\ resp.success
                => totalPages' = IF resp.hasPages /\ resp.total_pages # 0
                                 THEN resp.total_pages ELSE 1]_vars

\* C28: a click on a citation of page n made before the document-info
\* response of the view arrives has set currentPage to n, when the response
\* then tells that the document has P pages and 1 <= n <= P.
C28_ClickBeforeCount ==
  [][IsCall("loadDocInfo") /\ lastCall.op = "handlePageClick" =>
       LET resp == lastCall'.arg.response
           n == lastCall.arg
       IN  /\ ~resp.threw /\ resp.success /\ resp.hasPages
           /\ lastCall'.arg.id = ViewDocId
           /\ 1 <= n /\ n <= resp.total_pages
           => currentPage = n]_vars

\* the requests in flight that were sent from the chat view now mounted
InFlightOfView == { i \in DOMAIN pending : pending[i].mounted }

\* C29: while a request sent from the mounted chat view is in flight, a
\* further handleSendMessage appends no message and issues no request, so
\* at most one request of the view is in flight; the request settling, with
\* whatever outcome, sets isSending to false, and isSending never stays
\* true for ever.
C29_OneRequestPerView ==
  /\ [](Cardinality(InFlightOfView) <= 1)
  /\ [](isSending <=> InFlightOfView # {})
  /\ [][IsCall("handleSendMessage") /\ isSending
          => UNCHANGED <<chatbots, pending, isSending>>]_vars
  /\ [][IsCall("handleSendMessageSettled") /\ lastCall'.arg.request.mounted
          => ~isSending']_vars
  /\ (isSending ~> ~isSending)

\* a second message typed and sent while the first request is in flight
C29_Witness ==
  /\ lastCall.op = "handleSendMessage"
  /\ ~Blank(lastCall.arg)
  /\ isSending
  /\ Cardinality(InFlightOfView) = 1
  /\ StoredMessages = 1

\* the operations that build a backend request
RequestOps == {"uploadDocument", "sendChatMessage", "getDocumentInfo"}

\* C30: the key tokenStorage writes is the key the API module reads, so a
\* request built while a user is signed in carries the token of the sign-in
\* (as Authorization header, or as the token parameter of a page-image URL)
\* and a request built while nobody is signed in carries none.
C30_RequestsCarryToken ==
  /\ getAuthToken = getToken(localStorage)
  /\ lastCall.op \in RequestOps =>
       lastCall.arg.headers.Authorization =
         IF token = Null THEN NoValue ELSE "Bearer " \o token
  /\ lastCall.op = "getPageImageUrl" =>
       lastCall.arg.token =
         IF token = Null THEN NoValue ELSE encodeURIComponent(token)

====
